---- MODULE Spec2Model ----
(***************************************************************************)
(* A model of scripts/fetch.py: one run of the fetch / convert / guard /   *)
(* write pipeline (Spec, and SpecLive for termination), two runs in a row  *)
(* (SpecTwice), and its pure parts (freshness check, element-to-point      *)
(* conversion, feature-drop guard) under specifications of their own.      *)
(***************************************************************************)
EXTENDS Integers, Sequences, FiniteSets, TLC

(***************************************************************************)
(* Program constants (fetch.py lines 23-39).                               *)
(***************************************************************************)
OVERPASS_ENDPOINTS ==
    << "https://overpass-api.de/api/interpreter",
       "https://overpass.kumi.systems/api/interpreter",
       "https://maps.mail.ru/osm/tools/overpass/api/interpreter",
       "https://overpass.private.coffee/api/interpreter" >>

DEFAULT_DROP_THRESHOLD == 50

DEFAULT_MAX_DATA_LAG_HOURS == 48

RETRY_ROUNDS == 2

RETRY_DELAY_SECONDS == 3600

\* total_seconds() / 3600 at line 86
SECONDS_PER_HOUR == 3600

(***************************************************************************)
(* Bounds of the model.                                                    *)
(***************************************************************************)
\* longest element list handed to the converter on its own
MaxElements == 2

\* largest feature count of a previous output file seen by the drop guard
MaxOld == 20

\* largest new feature count handed to the drop guard on its own
MaxNew == 10

(***************************************************************************)
(* Python values.  None is the empty tuple, a value x that is present is   *)
(* <<x>>.  A JSON member of a dict is one of: missing key, null, number.   *)
(***************************************************************************)
None == << >>

Some(x) == << x >>

Missing == [k |-> "missing", v |-> 0]

Null == [k |-> "null", v |-> 0]

Num(x) == [k |-> "num", v |-> x]

\* dict.get(key): the member's value, None for a missing key or a null
Get(m) == IF m.k = "num" THEN Some(m.v) ELSE None

\* dict[key] used as an operand of +: KeyError on a missing key, TypeError on
\* a null
Subscriptable(m) == m.k = "num"

(***************************************************************************)
(* Raw elements (the members of the response's "elements" array).  type is *)
(* the element's "type" string, "" when the key is missing; id, lon, lat   *)
(* are JSON members; center, bounds and tags are a missing key, a null or  *)
(* a dict (k = "dict") whose members are JSON members.                     *)
(***************************************************************************)
NoCenter == [k |-> "missing", lon |-> Missing, lat |-> Missing]

Center(lon, lat) == [k |-> "dict", lon |-> lon, lat |-> lat]

NoBounds ==
    [k |-> "missing", minlon |-> Missing, minlat |-> Missing,
     maxlon |-> Missing, maxlat |-> Missing]

Bounds(minlon, minlat, maxlon, maxlat) ==
    [k |-> "dict", minlon |-> minlon, minlat |-> minlat,
     maxlon |-> maxlon, maxlat |-> maxlat]

EmptyDict == [key \in {} |-> << >>]

NoTags == [k |-> "missing", d |-> EmptyDict]

NullTags == [k |-> "null", d |-> EmptyDict]

Tags(d) == [k |-> "dict", d |-> d]

Element(type, id, tags, lon, lat, center, bounds) ==
    [type |-> type, id |-> id, tags |-> tags, lon |-> lon, lat |-> lat,
     center |-> center, bounds |-> bounds]

\* the center is used whenever the key holds a record ("is not None")
CenterNotNone(c) == c.k = "dict"

\* bool(d) of element.get("center") / element.get("bounds"): a missing key and
\* a null give None, a dict is true when it has at least one key
CenterTruthy(c) ==
    c.k = "dict" /\ (c.lon.k # "missing" \/ c.lat.k # "missing")

BoundsTruthy(b) ==
    b.k = "dict" /\ \E key \in {"minlon", "minlat", "maxlon", "maxlat"} :
                        b[key].k # "missing"

\* str(elem_id) inside the f-string of line 154, for the ids of the model
Str(i) == << "0", "1", "2", "3", "4", "5", "6", "7", "8", "9" >>[i + 1]

\* x / 2 of lines 170-171.  The model draws even coordinates only, for which
\* Python's true division by 2 is exact and is the integer quotient.
Half(x) == x \div 2

\* "@id" and "@type" are set first and the tags are copied over them
PropertiesTagsLast(element) ==
    LET elem_type == element.type
        elem_id == IF element.id.k = "num" THEN element.id.v ELSE 0
        tags == IF element.tags.k = "dict" THEN element.tags.d ELSE EmptyDict
    IN  [key \in DOMAIN tags \cup {"@id", "@type"} |->
            IF key \in DOMAIN tags THEN tags[key]
            ELSE IF key = "@id" THEN << elem_type, "/", Str(elem_id) >>
            ELSE << elem_type >>]

\* lines 149-155: dict(tags), then "@id" and "@type" are set.  A property value
\* is a tuple of strings: <<v>> for a tag value v, the pieces of the f-string
\* for "@id".
Properties(element) ==
    LET elem_type == element.type
        elem_id == IF element.id.k = "num" THEN element.id.v ELSE 0
        tags == IF element.tags.k = "dict" THEN element.tags.d ELSE EmptyDict
    IN  [key \in DOMAIN tags \cup {"@id", "@type"} |->
            IF key = "@id" THEN << elem_type, "/", Str(elem_id) >>
            ELSE IF key = "@type" THEN << elem_type >>
            ELSE tags[key]]

\* lines 169-171: b["minlon"] + b["maxlon"] raises KeyError on a missing key
\* and TypeError on a null operand
BoundsRaises(b) ==
    \E key \in {"minlon", "minlat", "maxlon", "maxlat"} : ~Subscriptable(b[key])

\* every kind that is no way and no relation takes the node branch
IsNodeOrUnknown(elem_type) == elem_type \notin {"way", "relation"}

\* line 160
IsNode(elem_type) == elem_type = "node"

\* lines 157-171: the (lon, lat) the element resolves to, each None or Some,
\* or raised = TRUE when an exception leaves the function
Resolve(element) ==
    IF IsNode(element.type)
    THEN [raised |-> FALSE, lon |-> Get(element.lon), lat |-> Get(element.lat)]
    ELSE IF element.type \in {"way", "relation"}
    THEN LET center == element.center
             b == element.bounds
         IN  IF CenterTruthy(center)
             THEN [raised |-> FALSE, lon |-> Get(center.lon),
                   lat |-> Get(center.lat)]
             ELSE IF BoundsTruthy(b)
             THEN IF BoundsRaises(b)
                  THEN [raised |-> TRUE, lon |-> None, lat |-> None]
                  ELSE [raised |-> FALSE,
                        lon |-> Some(Half(b.minlon.v + b.maxlon.v)),
                        lat |-> Some(Half(b.minlat.v + b.maxlat.v))]
             ELSE [raised |-> FALSE, lon |-> None, lat |-> None]
    ELSE [raised |-> FALSE, lon |-> None, lat |-> None]

\* a coordinate of 0 is taken for a missing one ("not lon or not lat")
NoPointFalsy(lon, lat) == lon \in {None, Some(0)} \/ lat \in {None, Some(0)}

\* only an element without any coordinate is dropped
NoPointAtAll(lon, lat) == lon = None /\ lat = None

\* line 173
NoPoint(lon, lat) == lon = None \/ lat = None

\* lines 148-180: feature is None (element skipped) or Some(feature).  The
\* coordinates are the list [lon, lat] of line 178, each member as resolved:
\* Some(number), or None for a null.
element_to_feature_point(element) ==
    LET g == Resolve(element)
    IN  IF g.raised
        THEN [raised |-> TRUE, feature |-> None]
        ELSE IF NoPoint(g.lon, g.lat)
        THEN [raised |-> FALSE, feature |-> None]
        ELSE [raised |-> FALSE,
              feature |-> Some([type |-> "Feature",
                                geometry |-> [type |-> "Point",
                                              coordinates |-> << g.lon, g.lat >>],
                                properties |-> Properties(element)])]

\* the loop with one feature per "@id": an element whose "@id" a feature
\* already carries is passed over
RECURSIVE ConvertFromDedup(_, _, _, _)
ConvertFromDedup(elements, i, features, skipped) ==
    IF i > Len(elements)
    THEN [raised |-> FALSE, features |-> features, skipped |-> skipped]
    ELSE LET r == element_to_feature_point(elements[i])
         IN  IF r.raised
             THEN [raised |-> TRUE, features |-> features, skipped |-> skipped]
             ELSE IF r.feature = None
             THEN ConvertFromDedup(elements, i + 1, features, skipped + 1)
             ELSE IF \E j \in 1 .. Len(features) :
                        features[j].properties["@id"] = r.feature[1].properties["@id"]
             THEN ConvertFromDedup(elements, i + 1, features, skipped)
             ELSE ConvertFromDedup(elements, i + 1, Append(features, r.feature[1]),
                                   skipped)

\* lines 187-192: the loop from element i on, with the accumulators so far.  An
\* exception of element_to_feature_point leaves the loop and the function.
RECURSIVE ConvertFrom(_, _, _, _)
ConvertFrom(elements, i, features, skipped) ==
    IF i > Len(elements)
    THEN [raised |-> FALSE, features |-> features, skipped |-> skipped]
    ELSE LET r == element_to_feature_point(elements[i])
         IN  IF r.raised
             THEN [raised |-> TRUE, features |-> features, skipped |-> skipped]
             ELSE IF r.feature # None
             THEN ConvertFrom(elements, i + 1, Append(features, r.feature[1]), skipped)
             ELSE ConvertFrom(elements, i + 1, features, skipped + 1)

\* lines 183-197
elements_to_features(elements) == ConvertFrom(elements, 1, << >>, 0)

(***************************************************************************)
(* Freshness check (lines 78-90).  The "timestamp_osm_base" member of a    *)
(* dataset is modelled by the shape of its text:                           *)
(*   missing / empty   no key (the default "") or an empty string          *)
(*   garbage           text fromisoformat rejects (ValueError)             *)
(*   naive             date and time without a UTC offset                  *)
(*   Z                 date and time followed by "Z"                       *)
(*   offset            date and time followed by "+hh:mm"                  *)
(* clock is the wall-clock reading of the text and offset the UTC offset   *)
(* it states, both in seconds.                                             *)
(***************************************************************************)
Timestamp(form, clock, offset) == [form |-> form, clock |-> clock, offset |-> offset]

NoTimestamp == Timestamp("missing", 0, 0)

Dataset(timestamp, elements) == [timestamp |-> timestamp, elements |-> elements]

\* line 84: replace("Z", "+00:00"), then datetime.fromisoformat.  ok = FALSE
\* when it raises; aware = FALSE for a datetime without tzinfo; instant is the
\* UTC time in seconds of an aware one.
ParseTimestamp(ts) ==
    CASE ts.form = "Z" -> [ok |-> TRUE, aware |-> TRUE, instant |-> ts.clock]
      [] ts.form = "offset" ->
            [ok |-> TRUE, aware |-> TRUE, instant |-> ts.clock - ts.offset]
      [] ts.form = "naive" -> [ok |-> TRUE, aware |-> FALSE, instant |-> ts.clock]
      [] OTHER -> [ok |-> FALSE, aware |-> FALSE, instant |-> 0]

\* the boundary counted as stale ("<" for "<=")
LagBelow(lag_seconds, max_lag_hours) ==
    lag_seconds < max_lag_hours * SECONDS_PER_HOUR

\* lines 86-87: lag_hours = total_seconds() / 3600; lag_hours <= max_lag_hours.
\* For whole seconds and whole hours the quotient compares with the bound as
\* the seconds compare with the bound's seconds.
LagWithin(lag_seconds, max_lag_hours) ==
    lag_seconds <= max_lag_hours * SECONDS_PER_HOUR

\* lines 78-90, with now the reading of datetime.now(timezone.utc) in seconds
check_data_freshness(data, max_lag_hours, now) ==
    LET timestamp_str == data.timestamp
        data_time == ParseTimestamp(timestamp_str)
    IN  IF timestamp_str.form \in {"missing", "empty"}
        THEN TRUE
        ELSE IF ~data_time.ok
        THEN TRUE      \* ValueError, caught at line 88
        ELSE IF ~data_time.aware
        THEN TRUE      \* aware - naive raises TypeError, caught at line 88
        ELSE LagWithin(now - data_time.instant, max_lag_hours)

(***************************************************************************)
(* The output file and the drop guard (lines 204-225).  A file is          *)
(*   absent          os.path.exists is false                               *)
(*   unparseable     json.load raises                                      *)
(*   not_object      the JSON value is no object (.get raises)             *)
(*   no_features     an object without the key "features"                  *)
(*   features_null   "features" is null (len raises)                       *)
(*   collection      an object whose "features" is the list features       *)
(***************************************************************************)
File(kind, features) == [kind |-> kind, features |-> features]

AbsentFile == File("absent", << >>)

\* line 205
Exists(f) == f.kind # "absent"

\* lines 208-213: raised = TRUE when the try block raises
ReadOldCount(f) ==
    CASE f.kind = "collection" -> [raised |-> FALSE, old_count |-> Len(f.features)]
      [] f.kind = "no_features" -> [raised |-> FALSE, old_count |-> 0]
      [] OTHER -> [raised |-> TRUE, old_count |-> 0]

\* The thresholds T of 0..100 for which the double (T / 100) * 100 is above T,
\* e.g. 0.55 * 100 = 55.00000000000001.
FloatRoundsUp == {7, 14, 28, 55, 56}

\* the comparison of line 219 with >= in place of >
DropPctAtLeast(old_count, new_count, threshold) ==
    (old_count - new_count) * 100 >= threshold * old_count

\* lines 218-219 in IEEE-754 doubles: ((old_count - new_count) / old_count) * 100
\* > threshold.  Where the exact percentage differs from the threshold the
\* doubles compare as the exact values do (the counts are far below 2^40);
\* where it equals the threshold, (old_count - new_count) / old_count is the
\* real T / 100, so the product is the double (T / 100) * 100.
DropPctExceeds(old_count, new_count, threshold) ==
    LET lhs == (old_count - new_count) * 100
        rhs == threshold * old_count
    IN  lhs > rhs \/ (lhs = rhs /\ threshold \in FloatRoundsUp)

\* lines 204-225: "exit" for sys.exit(1), "return" otherwise
check_feature_drop(new_count, f, threshold) ==
    IF ~Exists(f)
    THEN "return"
    ELSE LET r == ReadOldCount(f)
         IN  IF r.raised
             THEN "return"
             ELSE IF r.old_count = 0
             THEN "return"
             ELSE IF DropPctExceeds(r.old_count, new_count, threshold)
             THEN "exit"
             ELSE "return"

\* lines 232-237: the document the file holds afterwards
write_geojson(features) == File("collection", features)

\* os.environ.get(name, default) read as a number: env is None when unset
EnvNumber(env, default) == IF env = None THEN default ELSE env[1]

(***************************************************************************)
(* The state of one run of main().                                         *)
(***************************************************************************)
VARIABLES
    pc,             \* where the run is: "read_query", "round" (line 101),
                    \* "endpoint" (line 111), "convert" (line 248),
                    \* "check_drop" (line 257), "write" (line 260), "done",
                    \* "exited"; "freshness" / "freshness_done" when
                    \* check_data_freshness runs on its own
    outcome,        \* "running", "success", or how the process ended
    query_file,     \* query/playquery.ql: "missing", "empty" or "text"
    now,            \* the UTC clock, in seconds
    max_lag_hours,  \* line 94
    round_idx,      \* line 101
    ep_idx,         \* position of line 111's endpoint in OVERPASS_ENDPOINTS
    last_error,     \* line 98
    last_endpoint,  \* line 99
    report,         \* what lines 137-140 print: the endpoint and the error
    attempts,       \* history: one entry per pass through lines 112-134
    sleeps,         \* history: calls of time.sleep at line 109
    data,           \* what fetch_overpass returned (line 246), None before
    elements,       \* line 248
    features,       \* line 249
    skipped,        \* line 185, as elements_to_features left it
    threshold,      \* line 257, None before
    guard,          \* history: "pending", "passed" or "aborted" (lines 204-225)
    file,           \* data/funmap.geojson
    file0,          \* history: the file when the run started
    reads,          \* history: times the file was opened for reading
    writes,         \* history: times the file was opened for writing
    fresh,          \* check_data_freshness' result when it runs on its own
    previous_run,   \* history: None in a first run; in a run that follows
                    \* another, the attempts, outcome and file of that run
    unsized         \* history: a response that parsed and was fresh had an
                    \* "elements" member without a length (line 128 raised)

vars ==
    << pc, outcome, query_file, now, max_lag_hours, round_idx, ep_idx,
       last_error, last_endpoint, report, attempts, sleeps, data, elements,
       features, skipped, threshold, guard, file, file0, reads, writes, fresh,
       previous_run, unsized >>

fetchVars ==
    << now, max_lag_hours, round_idx, ep_idx, last_error, last_endpoint,
       report, attempts, sleeps, data >>

convertVars == << elements, features, skipped >>

fileVars == << threshold, guard, file, reads, writes >>

(***************************************************************************)
(* Inputs of the run.                                                      *)
(***************************************************************************)
QueryFiles == {"missing", "empty", "text"}

\* FUNMAP_MAX_DATA_LAG_HOURS: unset
LagEnv == {None}

\* FUNMAP_DROP_THRESHOLD: unset, or one of these percentages
ThresholdEnv == {None, Some(0), Some(55), Some(100)}

OldFeature ==
    [type |-> "Feature",
     geometry |-> [type |-> "Point", coordinates |-> << Some(8), Some(8) >>],
     properties |-> Properties(Element("node", Num(9), NoTags, Num(8), Num(8),
                                       NoCenter, NoBounds))]

\* a previous output file of k features
PrevFile(k) == File("collection", [i \in 1 .. k |-> OldFeature])

\* largest previous output file of a whole run
MaxPrev == 3

RunFiles ==
    {AbsentFile, File("unparseable", << >>)} \cup {PrevFile(k) : k \in 0 .. MaxPrev}

NodeA == Element("node", Num(1), NoTags, Num(4), Num(6), NoCenter, NoBounds)

WayB ==
    Element("way", Num(2), Tags([name |-> << "park" >>]), Missing, Missing,
            Center(Num(0), Num(2)), NoBounds)

RelationC ==
    Element("relation", Num(3), NoTags, Missing, Missing, NoCenter,
            Bounds(Num(0), Num(2), Num(4), Num(8)))

AreaD == Element("area", Num(4), NoTags, Missing, Missing, NoCenter, NoBounds)

WayE ==
    Element("way", Num(5), NoTags, Missing, Missing, NoCenter,
            Bounds(Num(0), Num(2), Num(4), Missing))

\* the "elements" arrays an endpoint answers with in a whole run
RunElementLists ==
    { << >>, << AreaD >>, << NodeA >>, << NodeA, AreaD >>, << NodeA, WayB >>,
      << NodeA, WayB, RelationC >>, << NodeA, WayE >> }

\* the timestamps an endpoint answers with in a whole run: none, one exactly
\* max_lag_hours old and one a second older
RunTimestamps ==
    { NoTimestamp,
      Timestamp("Z", now - max_lag_hours * SECONDS_PER_HOUR, 0),
      Timestamp("Z", now - max_lag_hours * SECONDS_PER_HOUR - 1, 0) }

RunDatasets == {Dataset(ts, es) : ts \in RunTimestamps, es \in RunElementLists}

\* the exception an attempt raises (urlopen, decode, json.loads or anything
\* else inside the try block of lines 113-129): a new object each time
Exception(r, e) == [round |-> r, endpoint |-> e]

Attempt(outcome_, error, dataset) ==
    [round |-> round_idx, endpoint |-> ep_idx, outcome |-> outcome_,
     error |-> error, data |-> dataset]

(***************************************************************************)
(* Init: the process has started, nothing has run.                         *)
(***************************************************************************)
Start(pc0, f, d, fs, n, h) ==
    /\ pc = pc0
    /\ outcome = "running"
    /\ now = n
    /\ max_lag_hours = h
    /\ round_idx = 0
    /\ ep_idx = 1
    /\ last_error = None
    /\ last_endpoint = None
    /\ report = [endpoint |-> None, error |-> None]
    /\ attempts = << >>
    /\ sleeps = 0
    /\ data = d
    /\ elements = << >>
    /\ features = fs
    /\ skipped = 0
    /\ threshold = None
    /\ guard = "pending"
    /\ file = f
    /\ file0 = f
    /\ reads = 0
    /\ writes = 0
    /\ fresh = None
    /\ previous_run = None
    /\ unsized = FALSE

Init ==
    /\ query_file \in QueryFiles
    /\ \E f \in RunFiles : Start("read_query", f, None, << >>, 0, DEFAULT_MAX_DATA_LAG_HOURS)

(***************************************************************************)
(* main(), step by step.                                                   *)
(***************************************************************************)
Exit(how) ==
    /\ pc' = "exited"
    /\ outcome' = how

\* lines 245 and 51-71, then lines 94-99 of fetch_overpass
ReadQuery ==
    /\ pc = "read_query"
    /\ IF query_file \in {"missing", "empty"}
       THEN /\ Exit("fatal_query")
            /\ UNCHANGED fetchVars
       ELSE /\ pc' = "round"
            /\ \E env \in LagEnv :
                  max_lag_hours' = EnvNumber(env, DEFAULT_MAX_DATA_LAG_HOURS)
            /\ last_error' = None
            /\ last_endpoint' = None
            /\ round_idx' = 0
            /\ UNCHANGED << outcome, now, ep_idx, report, attempts, sleeps, data >>
    /\ UNCHANGED << query_file, convertVars, fileVars, file0, fresh,
                    previous_run, unsized >>

\* every round starts with the delay, the first one too
BeginRoundAlwaysSleeps ==
    /\ pc = "round"
    /\ round_idx < RETRY_ROUNDS
    /\ sleeps' = sleeps + 1
    /\ now' = now + RETRY_DELAY_SECONDS
    /\ ep_idx' = 1
    /\ pc' = "endpoint"
    /\ UNCHANGED << outcome, query_file, max_lag_hours, round_idx, last_error,
                    last_endpoint, report, attempts, data, convertVars,
                    fileVars, file0, fresh, previous_run, unsized >>

\* lines 101-110: a round starts, after the delay when it is not the first
BeginRound ==
    /\ pc = "round"
    /\ round_idx < RETRY_ROUNDS
    /\ IF round_idx > 0
       THEN /\ sleeps' = sleeps + 1
            /\ now' = now + RETRY_DELAY_SECONDS
       ELSE UNCHANGED << sleeps, now >>
    /\ ep_idx' = 1
    /\ pc' = "endpoint"
    /\ UNCHANGED << outcome, query_file, max_lag_hours, round_idx, last_error,
                    last_endpoint, report, attempts, data, convertVars,
                    fileVars, file0, fresh,
                    previous_run, unsized >>

\* after the last endpoint the loop starts over at the first one, in the same
\* round
NextEndpointForever ==
    /\ ep_idx' = IF ep_idx < Len(OVERPASS_ENDPOINTS) THEN ep_idx + 1 ELSE 1
    /\ pc' = "endpoint"
    /\ UNCHANGED round_idx

\* line 111: the for loop moves to the next endpoint, or the round is over
NextEndpoint ==
    IF ep_idx < Len(OVERPASS_ENDPOINTS)
    THEN /\ ep_idx' = ep_idx + 1
         /\ pc' = "endpoint"
         /\ UNCHANGED round_idx
    ELSE /\ round_idx' = round_idx + 1
         /\ pc' = "round"
         /\ UNCHANGED ep_idx

\* lines 112-128 raise (the request, the decoding, json.loads, or anything
\* else inside the try block), lines 131-134
TryEndpointFailed ==
    /\ pc = "endpoint"
    /\ LET e == Exception(round_idx, ep_idx)
       IN  /\ last_error' = Some(e)
           /\ last_endpoint' = Some(OVERPASS_ENDPOINTS[ep_idx])
           /\ attempts' = Append(attempts, Attempt("failed", Some(e), None))
    /\ NextEndpoint
    /\ UNCHANGED << outcome, query_file, now, max_lag_hours, report, sleeps,
                    data, convertVars, fileVars, file0, fresh,
                    previous_run, unsized >>

\* lines 112-128 and 131-134: the response parses and is fresh, and its
\* "elements" member is null or a number: len() raises inside the try block,
\* so the attempt ends in the except block as a failed one
TryEndpointUnsized ==
    /\ pc = "endpoint"
    /\ \E ts \in RunTimestamps :
          check_data_freshness(Dataset(ts, << >>), max_lag_hours, now)
    /\ LET e == Exception(round_idx, ep_idx)
       IN  /\ last_error' = Some(e)
           /\ last_endpoint' = Some(OVERPASS_ENDPOINTS[ep_idx])
           /\ attempts' = Append(attempts, Attempt("failed", Some(e), None))
    /\ unsized' = TRUE
    /\ NextEndpoint
    /\ UNCHANGED << outcome, query_file, now, max_lag_hours, report, sleeps,
                    data, convertVars, fileVars, file0, fresh, previous_run >>

\* a stale response is retained as the last endpoint tried
TryEndpointStaleRecorded ==
    /\ pc = "endpoint"
    /\ \E d \in RunDatasets :
          /\ ~check_data_freshness(d, max_lag_hours, now)
          /\ attempts' = Append(attempts, Attempt("stale", None, None))
    /\ last_endpoint' = Some(OVERPASS_ENDPOINTS[ep_idx])
    /\ NextEndpoint
    /\ UNCHANGED << outcome, query_file, now, max_lag_hours, last_error,
                    report, sleeps, data, convertVars, fileVars, file0, fresh,
                    previous_run, unsized >>

\* lines 112-126: the response parses and is too stale
TryEndpointStale ==
    /\ pc = "endpoint"
    /\ \E d \in RunDatasets :
          /\ ~check_data_freshness(d, max_lag_hours, now)
          /\ attempts' = Append(attempts, Attempt("stale", None, None))
    /\ NextEndpoint
    /\ UNCHANGED << outcome, query_file, now, max_lag_hours, last_error,
                    last_endpoint, report, sleeps, data, convertVars,
                    fileVars, file0, fresh,
                    previous_run, unsized >>

\* a fresh dataset is kept and the loop goes on to the next endpoint
TryEndpointFreshKeepsLooking ==
    /\ pc = "endpoint"
    /\ \E d \in RunDatasets :
          /\ check_data_freshness(d, max_lag_hours, now)
          /\ attempts' = Append(attempts, Attempt("fresh", None, Some(d)))
          /\ data' = Some(d)
    /\ NextEndpoint
    /\ UNCHANGED << outcome, query_file, now, max_lag_hours, last_error,
                    last_endpoint, report, sleeps, convertVars, fileVars,
                    file0, fresh,
                    previous_run, unsized >>

\* a fresh response without elements is passed over for the next endpoint
TryEndpointFreshSkipsEmpty ==
    /\ pc = "endpoint"
    /\ \E d \in RunDatasets :
          /\ check_data_freshness(d, max_lag_hours, now)
          /\ attempts' = Append(attempts, Attempt("fresh", None, Some(d)))
          /\ IF d.elements = << >>
             THEN /\ NextEndpoint
                  /\ UNCHANGED data
             ELSE /\ data' = Some(d)
                  /\ pc' = "convert"
                  /\ UNCHANGED << round_idx, ep_idx >>
    /\ UNCHANGED << outcome, query_file, now, max_lag_hours, last_error,
                    last_endpoint, report, sleeps, convertVars, fileVars,
                    file0, fresh, previous_run, unsized >>

\* lines 112-129: the response parses and is fresh; fetch_overpass returns it
TryEndpointFresh ==
    /\ pc = "endpoint"
    /\ \E d \in RunDatasets :
          /\ check_data_freshness(d, max_lag_hours, now)
          /\ attempts' = Append(attempts, Attempt("fresh", None, Some(d)))
          /\ data' = Some(d)
    /\ pc' = "convert"
    /\ UNCHANGED << outcome, query_file, now, max_lag_hours, round_idx, ep_idx,
                    last_error, last_endpoint, report, sleeps, convertVars,
                    fileVars, file0, fresh,
                    previous_run, unsized >>

\* the fatal exit taken as soon as one round is over
ExhaustedAfterFirstRound ==
    /\ pc = "round"
    /\ round_idx >= 1
    /\ report' = [endpoint |-> last_endpoint, error |-> last_error]
    /\ Exit("fatal_fetch")
    /\ UNCHANGED << query_file, now, max_lag_hours, round_idx, ep_idx,
                    last_error, last_endpoint, attempts, sleeps, data,
                    convertVars, fileVars, file0, fresh,
                    previous_run, unsized >>

\* lines 136-141: every round is over
Exhausted ==
    /\ pc = "round"
    /\ round_idx >= RETRY_ROUNDS
    /\ report' = [endpoint |-> last_endpoint, error |-> last_error]
    /\ Exit("fatal_fetch")
    /\ UNCHANGED << query_file, now, max_lag_hours, round_idx, ep_idx,
                    last_error, last_endpoint, attempts, sleeps, data,
                    convertVars, fileVars, file0, fresh,
                    previous_run, unsized >>

\* an empty feature list goes on to the drop guard
ConvertKeepsEmpty ==
    /\ pc = "convert"
    /\ elements' = data[1].elements
    /\ LET r == elements_to_features(elements')
       IN  IF r.raised
           THEN /\ Exit("crashed")
                /\ UNCHANGED << features, skipped >>
           ELSE /\ features' = r.features
                /\ skipped' = r.skipped
                /\ pc' = "check_drop"
                /\ UNCHANGED outcome
    /\ UNCHANGED << query_file, fetchVars, fileVars, file0, fresh,
                    previous_run, unsized >>

\* lines 248-253; an exception of the converter ends the process
Convert ==
    /\ pc = "convert"
    /\ elements' = data[1].elements
    /\ LET r == elements_to_features(elements')
       IN  IF r.raised
           THEN /\ Exit("crashed")
                /\ UNCHANGED << features, skipped >>
           ELSE /\ features' = r.features
                /\ skipped' = r.skipped
                /\ IF r.features = << >>
                   THEN Exit("fatal_empty")
                   ELSE /\ pc' = "check_drop"
                        /\ UNCHANGED outcome
    /\ UNCHANGED << query_file, fetchVars, fileVars, file0, fresh,
                    previous_run, unsized >>

\* the file is written before the guard has decided
CheckDropAfterWrite ==
    /\ pc = "check_drop"
    /\ file' = write_geojson(features)
    /\ writes' = writes + 1
    /\ \E env \in ThresholdEnv :
          LET t == EnvNumber(env, DEFAULT_DROP_THRESHOLD)
          IN  /\ threshold' = Some(t)
              /\ IF check_feature_drop(Len(features), file, t) = "exit"
                 THEN /\ guard' = "aborted"
                      /\ Exit("fatal_drop")
                 ELSE /\ guard' = "passed"
                      /\ pc' = "done"
                      /\ outcome' = "success"
    /\ reads' = IF Exists(file) THEN reads + 1 ELSE reads
    /\ UNCHANGED << query_file, fetchVars, convertVars, file0, fresh,
                    previous_run, unsized >>

\* lines 257-258 and 204-225
CheckDrop ==
    /\ pc = "check_drop"
    /\ \E env \in ThresholdEnv :
          LET t == EnvNumber(env, DEFAULT_DROP_THRESHOLD)
          IN  /\ threshold' = Some(t)
              /\ IF check_feature_drop(Len(features), file, t) = "exit"
                 THEN /\ guard' = "aborted"
                      /\ Exit("fatal_drop")
                 ELSE /\ guard' = "passed"
                      /\ pc' = "write"
                      /\ UNCHANGED outcome
    /\ reads' = IF Exists(file) THEN reads + 1 ELSE reads
    /\ UNCHANGED << query_file, fetchVars, convertVars, file, file0, writes, fresh,
                    previous_run, unsized >>

\* the new features are added to those the file holds
WriteMerged ==
    /\ pc = "write"
    /\ file' = write_geojson((IF file.kind = "collection" THEN file.features
                                                          ELSE << >>)
                             \o features)
    /\ writes' = writes + 1
    /\ pc' = "done"
    /\ outcome' = "success"
    /\ UNCHANGED << query_file, fetchVars, convertVars, threshold, guard,
                    file0, reads, fresh, previous_run, unsized >>

\* lines 260-261 and 232-237
Write ==
    /\ pc = "write"
    /\ file' = write_geojson(features)
    /\ writes' = writes + 1
    /\ pc' = "done"
    /\ outcome' = "success"
    /\ UNCHANGED << query_file, fetchVars, convertVars, threshold, guard,
                    file0, reads, fresh,
                    previous_run, unsized >>

Next ==
    \/ ReadQuery
    \/ BeginRound
    \/ TryEndpointFailed
    \/ TryEndpointStale
    \/ TryEndpointUnsized
    \/ TryEndpointFresh
    \/ Exhausted
    \/ Convert
    \/ CheckDrop
    \/ Write

Spec == Init /\ [][Next]_vars

(***************************************************************************)
(* The converter on its own: line 248 onwards, for every list of at most   *)
(* MaxElements elements drawn from ElementInputs.                          *)
(***************************************************************************)
FullCenter == Center(Num(4), Num(6))

FullBounds == Bounds(Num(0), Num(2), Num(4), Num(8))

NodeInputs ==
    {Element("node", Num(1), NoTags, lon, lat, NoCenter, NoBounds) :
        lon \in {Missing, Null, Num(0), Num(2)}, lat \in {Missing, Num(0), Num(8)}}
    \cup
    {Element("node", Num(1), NoTags, lon, Num(0), FullCenter, FullBounds) :
        lon \in {Missing, Num(0), Num(2)}}

CenterInputs ==
    { NoCenter, [NoCenter EXCEPT !.k = "null"], Center(Missing, Missing),
      Center(Num(4), Missing), Center(Null, Num(6)), FullCenter }

BoundsInputs ==
    { NoBounds, Bounds(Missing, Missing, Missing, Missing), FullBounds,
      Bounds(Num(0), Num(2), Num(4), Missing),
      Bounds(Null, Num(2), Num(4), Num(8)) }

WayInputs ==
    {Element("way", Num(1), NoTags, Missing, Missing, c, b) :
        c \in CenterInputs, b \in BoundsInputs}
    \cup
    { Element("way", Num(1), NoTags, Missing, Missing, Center(Num(0), Num(0)),
              NoBounds),
      Element("way", Num(1), NoTags, Num(2), Num(8), NoCenter, NoBounds) }

RelationInputs ==
    {Element("relation", Num(1), NoTags, Missing, Missing, c, b) :
        c \in {NoCenter, Center(Missing, Missing), FullCenter},
        b \in {NoBounds, FullBounds}}

OtherInputs ==
    { Element("area", Num(1), NoTags, Num(2), Num(8), FullCenter, FullBounds),
      Element("", Missing, NoTags, Num(2), Num(8), NoCenter, NoBounds) }

TaggedInputs ==
    {Element("node", Num(2), t, Num(2), Num(8), NoCenter, NoBounds) :
        t \in { NullTags, Tags(EmptyDict), Tags([name |-> << "park" >>]),
                Tags([key \in {"name", "@id", "@type"} |->
                        CASE key = "name" -> << "park" >>
                          [] key = "@id" -> << "way", "/", "7" >>
                          [] key = "@type" -> << "way" >>]) }}

ElementInputs ==
    NodeInputs \cup WayInputs \cup RelationInputs \cup OtherInputs \cup TaggedInputs

ElementLists == UNION {[1 .. n -> ElementInputs] : n \in 0 .. MaxElements}

InitConv ==
    /\ query_file = "text"
    /\ \E es \in ElementLists :
          Start("convert", AbsentFile, Some(Dataset(NoTimestamp, es)), << >>,
                0, DEFAULT_MAX_DATA_LAG_HOURS)

SpecConv == InitConv /\ [][Convert]_vars

(***************************************************************************)
(* Two runs in a row: the script is started again on the file the first    *)
(* run left, and the endpoints answer the second run as they answered the  *)
(* first (the same outcome of each attempt, the same elements).            *)
(***************************************************************************)
\* no previous output, an empty file (json.load raises on it), or a
\* collection of no features
EmptyFiles == {AbsentFile, File("unparseable", << >>), PrevFile(0)}

InitTwice ==
    /\ query_file = "text"
    /\ \E f \in EmptyFiles :
          Start("read_query", f, None, << >>, 0, DEFAULT_MAX_DATA_LAG_HOURS)

\* a new process: main() is entered again (line 244), only the file is kept
RunAgain ==
    /\ pc \in {"done", "exited"}
    /\ previous_run = None
    /\ previous_run' = Some([attempts |-> attempts, outcome |-> outcome,
                             file |-> file])
    /\ pc' = "read_query"
    /\ outcome' = "running"
    /\ round_idx' = 0
    /\ ep_idx' = 1
    /\ last_error' = None
    /\ last_endpoint' = None
    /\ report' = [endpoint |-> None, error |-> None]
    /\ attempts' = << >>
    /\ sleeps' = 0
    /\ data' = None
    /\ elements' = << >>
    /\ features' = << >>
    /\ skipped' = 0
    /\ threshold' = None
    /\ guard' = "pending"
    /\ file0' = file
    /\ reads' = 0
    /\ writes' = 0
    /\ unsized' = FALSE
    /\ UNCHANGED << query_file, now, max_lag_hours, file, fresh >>

\* the attempts of a second run so far went as those of the first run did
SameUpstream ==
    previous_run # None =>
        LET first == previous_run[1].attempts
        IN  /\ Len(attempts) <= Len(first)
            /\ \A k \in 1 .. Len(attempts) :
                  /\ attempts[k].outcome = first[k].outcome
                  /\ attempts[k].outcome = "fresh" =>
                        attempts[k].data[1].elements = first[k].data[1].elements

NextTwice ==
    \/ ReadQuery
    \/ BeginRound
    \/ TryEndpointFailed /\ SameUpstream'
    \/ TryEndpointStale /\ SameUpstream'
    \/ TryEndpointUnsized /\ SameUpstream'
    \/ TryEndpointFresh /\ SameUpstream'
    \/ Exhausted
    \/ Convert
    \/ CheckDrop
    \/ Write
    \/ RunAgain

SpecTwice == InitTwice /\ [][NextTwice]_vars

(***************************************************************************)
(* The drop guard on its own: line 257 onwards, for every previous file of *)
(* at most MaxOld features and every new count up to MaxNew.               *)
(***************************************************************************)
NewFeature == element_to_feature_point(NodeA).feature[1]

DropFiles ==
    {File(kind, << >>) :
        kind \in {"absent", "unparseable", "not_object", "no_features",
                  "features_null"}}
    \cup {PrevFile(k) : k \in 0 .. MaxOld}

InitDrop ==
    /\ query_file = "text"
    /\ \E f \in DropFiles, n \in 0 .. MaxNew :
          Start("check_drop", f, None, [i \in 1 .. n |-> NewFeature],
                0, DEFAULT_MAX_DATA_LAG_HOURS)

SpecDrop == InitDrop /\ [][CheckDrop]_vars

(***************************************************************************)
(* The freshness check on its own, for timestamps around the allowed lag.  *)
(***************************************************************************)
LagHoursInputs == {0, 1, DEFAULT_MAX_DATA_LAG_HOURS}

\* ages of the timestamp, in seconds: around each allowed lag, and one in the
\* future
LagInputs ==
    {h * SECONDS_PER_HOUR + d : h \in LagHoursInputs, d \in {-1, 0, 1}}
    \cup {-SECONDS_PER_HOUR}

OffsetInputs == {SECONDS_PER_HOUR, -SECONDS_PER_HOUR}

TimestampInputs(n) ==
    {Timestamp(form, 0, 0) : form \in {"missing", "empty", "garbage"}}
    \cup {Timestamp(form, n - l, 0) : form \in {"Z", "naive"}, l \in LagInputs}
    \cup {Timestamp("offset", n - l + off, off) : l \in LagInputs, off \in OffsetInputs}

InitFresh ==
    /\ query_file = "text"
    /\ \E h \in LagHoursInputs, n \in {0, RETRY_DELAY_SECONDS} :
          \E ts \in TimestampInputs(n) :
             Start("freshness", AbsentFile, Some(Dataset(ts, << >>)), << >>, n, h)

\* line 124's call, lines 78-90, applied to the dataset in data
CheckFreshness ==
    /\ pc = "freshness"
    /\ fresh' = Some(check_data_freshness(data[1], max_lag_hours, now))
    /\ pc' = "freshness_done"
    /\ UNCHANGED << outcome, query_file, fetchVars, convertVars, fileVars, file0,
                    previous_run, unsized >>

SpecFresh == InitFresh /\ [][CheckFreshness]_vars

(***************************************************************************)
(* Properties of the drop guard, under SpecDrop.                           *)
(***************************************************************************)
GuardRan == guard # "pending"

\* the previous file's feature count, where it has one
PreviousCount == IF file0.kind = "collection" THEN Len(file0.features) ELSE 0

\* C1: the guard aborts exactly when the previous file holds P > 0 features
\* and (P - N) / P * 100 > T in exact arithmetic, so that a drop equal to T
\* does not abort; without a readable previous file or with P = 0 it never
\* aborts.
C1_DropGuardDecision ==
    GuardRan =>
        LET P == PreviousCount
            N == Len(features)
            T == threshold[1]
        IN  (guard = "aborted") <=> (P > 0 /\ (P - N) * 100 > T * P)

(***************************************************************************)
(* Properties of a whole run, under Spec.                                  *)
(***************************************************************************)
Fatal == {"fatal_query", "fatal_fetch", "fatal_empty", "fatal_drop", "crashed"}

\* C2: the output file is written at most once, and only after the fetch
\* returned a dataset, the conversion produced at least one feature and the
\* drop guard returned without aborting; a run that ends fatally leaves the
\* file as it was when the run started.
C2_WriteOnlyAfterGuards ==
    /\ writes <= 1
    /\ writes = 1 => /\ data # None
                     /\ Len(features) >= 1
                     /\ guard = "passed"
                     /\ pc = "done"
    /\ file # file0 => writes = 1
    /\ outcome \in Fatal => file = file0 /\ writes = 0

\* a run with a previous file of three features that wrote a different file
C2_Witness ==
    /\ outcome = "success"
    /\ writes = 1
    /\ reads = 1
    /\ file0 = PrevFile(3)
    /\ file # file0

NumEndpoints == Len(OVERPASS_ENDPOINTS)

\* the k-th attempt of a run is made in round (k - 1) \div 4 on endpoint
\* ((k - 1) % 4) + 1
InListOrder(k) ==
    /\ attempts[k].round = (k - 1) \div NumEndpoints
    /\ attempts[k].endpoint = ((k - 1) % NumEndpoints) + 1

\* C3: attempts are made in (round, endpoint) order; a fresh attempt is the
\* last attempt of the run (every attempt before it failed or was stale, none
\* follows it), its dataset is the one fetch_overpass returns, the loop is
\* left, and no sleep follows it (the sleeps are those before its round); a
\* dataset is returned only by a fresh attempt.
C3_FirstFreshWins ==
    /\ \A k \in 1 .. Len(attempts) : InListOrder(k)
    /\ \A k \in 1 .. Len(attempts) :
          attempts[k].outcome = "fresh" =>
              /\ k = Len(attempts)
              /\ data = attempts[k].data
              /\ pc \notin {"round", "endpoint"}
              /\ sleeps = attempts[k].round
    /\ data # None =>
          /\ attempts # << >>
          /\ attempts[Len(attempts)].outcome = "fresh"

\* all four endpoints fail in the first round, the second endpoint is fresh
\* in the second: six attempts, and that dataset is returned
C3_Witness ==
    /\ Len(attempts) = 6
    /\ \A k \in 1 .. 4 : attempts[k].outcome = "failed"
    /\ attempts[6].outcome = "fresh"
    /\ attempts[6].round = 1
    /\ attempts[6].endpoint = 2
    /\ data = attempts[6].data
    /\ sleeps = 1

\* every endpoint was attempted in every round and no attempt was fresh
AllExhausted ==
    /\ Len(attempts) = RETRY_ROUNDS * NumEndpoints
    /\ \A k \in 1 .. Len(attempts) : attempts[k].outcome \in {"failed", "stale"}
    /\ \A r \in 0 .. RETRY_ROUNDS - 1, e \in 1 .. NumEndpoints :
          \E k \in 1 .. Len(attempts) :
             attempts[k].round = r /\ attempts[k].endpoint = e

\* C4: fetch_overpass has exited fatally only if every endpoint was attempted
\* in every round and each attempt failed or was stale; once that is so the
\* run is at the fatal exit or has taken it; before that, no failed or stale
\* attempt ends the run.
C4_FatalOnlyAfterExhaustion ==
    /\ outcome = "fatal_fetch" => AllExhausted
    /\ AllExhausted =>
          \/ outcome = "fatal_fetch"
          \/ (outcome = "running" /\ pc = "round" /\ ENABLED Exhausted)
    /\ (attempts # << >> /\ ~AllExhausted /\ data = None) =>
          (outcome = "running" /\ pc \in {"round", "endpoint"})

\* a run that exhausted both rounds on failed and on stale attempts
C4_Witness ==
    /\ outcome = "fatal_fetch"
    /\ \E k \in 1 .. Len(attempts) : attempts[k].outcome = "stale"
    /\ \E k \in 1 .. Len(attempts) : attempts[k].outcome = "failed"

\* the errors of the failed attempts, in the order they were raised
RECURSIVE ErrorsOf(_)
ErrorsOf(log) ==
    IF log = << >>
    THEN << >>
    ELSE LET rest == ErrorsOf(SubSeq(log, 1, Len(log) - 1))
             last == log[Len(log)]
         IN  IF last.outcome = "failed" THEN Append(rest, last.error[1]) ELSE rest

\* C5: on exhaustion the failure report names the endpoint of the final
\* attempt of the final round, and the error of the most recent failure.
C5_ReportsLastAttempt ==
    outcome = "fatal_fetch" =>
        LET final == attempts[Len(attempts)]
            errors == ErrorsOf(attempts)
        IN  /\ report.endpoint = Some(OVERPASS_ENDPOINTS[final.endpoint])
            /\ errors # << >>
            /\ report.error = Some(errors[Len(errors)])

(***************************************************************************)
(* Properties of the freshness check, under SpecFresh.                     *)
(***************************************************************************)
\* the text states no instant of time: there is no timestamp, it does not
\* parse, or it parses to a date and time without a UTC offset
NoInstant(ts) == ts.form \in {"missing", "empty", "garbage", "naive"}

\* seconds between the clock and the instant the text states
ElapsedSeconds(ts) == now - (ts.clock - ts.offset)

ConverterReturned == pc = "check_drop" \/ outcome = "fatal_empty"

KindOutside(e) == e.type \notin {"node", "way", "relation"}

HasMember(m) == m.k = "num"

\* the element has none of the geometry sources of its kind
NoGeometrySource(e) ==
    \/ e.type = "node" /\ (~HasMember(e.lon) \/ ~HasMember(e.lat))
    \/ e.type \in {"way", "relation"} /\ e.center.k # "dict" /\ e.bounds.k # "dict"

Excluded(e) == KindOutside(e) \/ NoGeometrySource(e)

CountExcluded == Cardinality({i \in 1 .. Len(elements) : Excluded(elements[i])})

\* C7: when the converter returns, every element was either emitted or
\* counted as skipped (skipped + len(features) = len(elements)), and the
\* elements of a kind outside node / way / relation or without any geometry
\* source are all among the skipped, none among the features.
C7_ConverterAccounting ==
    ConverterReturned =>
        /\ skipped + Len(features) = Len(elements)
        /\ skipped >= CountExcluded
        /\ Len(features) <= Len(elements) - CountExcluded

\* a returned conversion of two elements, the first of an unknown kind with
\* coordinates (skipped), the second emitted
C7_Witness ==
    /\ ConverterReturned
    /\ Len(elements) = 2
    /\ KindOutside(elements[1])
    /\ HasMember(elements[1].lon)
    /\ skipped = 1
    /\ Len(features) = 1

\* every element of the list was emitted, so that feature i is element i's
AllEmitted == ConverterReturned /\ Len(features) = Len(elements)

\* the numbers (lon, lat) of feature i
Coordinates(i) ==
    LET c == features[i].geometry.coordinates
    IN  << c[1][1], c[2][1] >>

IsArea(e) == e.type \in {"way", "relation"}

Midpoint(b) ==
    << (b.minlon.v + b.maxlon.v) \div 2, (b.minlat.v + b.maxlat.v) \div 2 >>

\* the claim of C8 as first stated: a way or relation that has a center (the
\* key is present with a record, be it empty) is emitted at the center's
\* (lon, lat), whether or not it has bounds; one without center and with
\* bounds at the midpoint of the bounds.
C8_CenterWheneverPresent ==
    AllEmitted =>
        \A i \in 1 .. Len(elements) :
            LET e == elements[i]
            IN  IsArea(e) =>
                  /\ e.center.k = "dict" =>
                        /\ HasMember(e.center.lon)
                        /\ HasMember(e.center.lat)
                        /\ Coordinates(i) = << e.center.lon.v, e.center.lat.v >>
                  /\ (e.center.k # "dict" /\ e.bounds.k = "dict") =>
                        Coordinates(i) = Midpoint(e.bounds)

NonEmptyCenter(e) ==
    e.center.k = "dict"
    /\ (e.center.lon.k # "missing" \/ e.center.lat.k # "missing")

CompleteBounds(e) ==
    e.bounds.k = "dict"
    /\ \A key \in {"minlon", "minlat", "maxlon", "maxlat"} : HasMember(e.bounds[key])

\* a way or relation with a center of two coordinates, or with no center, a
\* null or an empty one and bounds of four numbers
LocatedArea(e) ==
    /\ IsArea(e)
    /\ IF NonEmptyCenter(e)
       THEN HasMember(e.center.lon) /\ HasMember(e.center.lat)
       ELSE CompleteBounds(e)

CountLocatedAreas ==
    Cardinality({i \in 1 .. Len(elements) : LocatedArea(elements[i])})

\* C8: a way or relation with a non-empty center record is emitted at the
\* center's (lon, lat), whether or not it has bounds; one whose center is
\* missing, null or an empty record and that has bounds is emitted at the
\* arithmetic midpoint of the bounds; and each of these is emitted when the
\* conversion returns.
C8_CenterThenBounds ==
    /\ ConverterReturned => Len(features) >= CountLocatedAreas
    /\ AllEmitted =>
          \A i \in 1 .. Len(elements) :
              LET e == elements[i]
              IN  IsArea(e) =>
                    /\ NonEmptyCenter(e) =>
                          /\ HasMember(e.center.lon)
                          /\ HasMember(e.center.lat)
                          /\ Coordinates(i) = << e.center.lon.v, e.center.lat.v >>
                    /\ (~NonEmptyCenter(e) /\ e.bounds.k = "dict") =>
                          Coordinates(i) = Midpoint(e.bounds)

\* a way with an empty center record and bounds, emitted at the midpoint, next
\* to a relation with center and bounds, emitted at the center
C8_Witness ==
    /\ AllEmitted
    /\ Len(elements) = 2
    /\ elements[1].type = "way"
    /\ elements[1].center = Center(Missing, Missing)
    /\ elements[1].bounds = FullBounds
    /\ Coordinates(1) = << 2, 5 >>
    /\ elements[2].type = "relation"
    /\ elements[2].center = FullCenter
    /\ elements[2].bounds = FullBounds
    /\ Coordinates(2) = << 4, 6 >>

GoodNode(e) == e.type = "node" /\ HasMember(e.lon) /\ HasMember(e.lat)

CountGoodNodes == Cardinality({i \in 1 .. Len(elements) : GoodNode(elements[i])})

\* C9: every node with both coordinates (0 included) is emitted: a returned
\* conversion has at least as many features as such nodes, a list of such
\* nodes only has exactly one feature per node, and the feature of such a node
\* has the node's (lon, lat), whatever center or bounds the node carries.
C9_NodeCoordinates ==
    ConverterReturned =>
        /\ Len(features) >= CountGoodNodes
        /\ AllEmitted =>
              \A i \in 1 .. Len(elements) :
                  GoodNode(elements[i]) =>
                      Coordinates(i) = << elements[i].lon.v, elements[i].lat.v >>

\* a node at (0, 0) that carries a center and bounds, emitted at (0, 0)
C9_Witness ==
    /\ AllEmitted
    /\ Len(elements) = 1
    /\ elements[1].type = "node"
    /\ elements[1].center = FullCenter
    /\ elements[1].bounds = FullBounds
    /\ Coordinates(1) = << 0, 0 >>

\* C10: the converter never throws: for every element list the conversion
\* completes and returns a feature list.
C10_ConverterNeverThrows == pc # "convert" => ConverterReturned

\* the tags object of an element: empty when the member is missing or null
TagsOf(e) == IF e.tags.k = "dict" THEN e.tags.d ELSE EmptyDict

SyntheticKeys == {"@id", "@type"}

\* C11: the properties of every emitted feature hold "@id" = "<kind>/<id>" and
\* "@type" = kind of its source element, also when the element's tags carry
\* keys of these names; every other tag is copied unchanged; the keys are
\* exactly the tags' keys together with "@id" and "@type".
C11_SyntheticProperties ==
    AllEmitted =>
        \A i \in 1 .. Len(elements) :
            LET e == elements[i]
                properties == features[i].properties
            IN  /\ DOMAIN properties = DOMAIN TagsOf(e) \cup SyntheticKeys
                /\ properties["@id"] = << e.type, "/", Str(e.id.v) >>
                /\ properties["@type"] = << e.type >>
                /\ \A key \in DOMAIN TagsOf(e) \ SyntheticKeys :
                      properties[key] = TagsOf(e)[key]

\* a node 2 whose tags say "@id" = "way/7" and "@type" = "way", emitted with
\* "@id" = "node/2", "@type" = "node" and its name tag
C11_Witness ==
    /\ AllEmitted
    /\ Len(elements) = 1
    /\ elements[1].tags.k = "dict"
    /\ DOMAIN elements[1].tags.d = {"name", "@id", "@type"}
    /\ elements[1].tags.d["@id"] = << "way", "/", "7" >>
    /\ features[1].properties["@id"] = << "node", "/", "2" >>
    /\ features[1].properties["@type"] = << "node" >>
    /\ features[1].properties["name"] = << "park" >>

\* what element_to_feature_point gives for each element of the list, by
\* position
PerElement == [i \in 1 .. Len(elements) |-> element_to_feature_point(elements[i])]

\* the positions of the elements that convert to a feature
Convertible == {i \in 1 .. Len(elements) : PerElement[i].feature # None}

\* the position of the j-th convertible element
RECURSIVE SourceOf(_)
SourceOf(j) ==
    LET after == IF j = 1 THEN 0 ELSE SourceOf(j - 1)
    IN  CHOOSE i \in Convertible : i > after /\ \A h \in Convertible : h > after => i <= h

\* C16: when the conversion returns, there is one feature per convertible
\* element, and the j-th feature is the feature of the j-th convertible
\* element of the input, so the features stand in the order of their source
\* elements; elements of the same kind and id each give their own feature.
C16_OrderWithoutDedup ==
    ConverterReturned =>
        /\ Len(features) = Cardinality(Convertible)
        /\ \A j \in 1 .. Len(features) :
              features[j] = PerElement[SourceOf(j)].feature[1]
        /\ \A j, k \in 1 .. Len(features) : j < k <=> SourceOf(j) < SourceOf(k)

\* a way followed by a node, both convertible: the way's feature comes first
C16_Witness ==
    /\ ConverterReturned
    /\ Len(elements) = 2
    /\ elements[1].type = "way"
    /\ elements[2].type = "node"
    /\ Len(features) = 2
    /\ features[1].properties["@type"] = << "way" >>
    /\ features[2].properties["@type"] = << "node" >>

\* the element's coordinate source has a missing or null lon or lat: a node
\* without one of its coordinates, a way or relation whose non-empty center
\* lacks one
PartialPoint(e) ==
    \/ e.type = "node" /\ (~HasMember(e.lon) \/ ~HasMember(e.lat))
    \/ /\ IsArea(e)
       /\ NonEmptyCenter(e)
       /\ ~HasMember(e.center.lon) \/ ~HasMember(e.center.lat)

CountPartialPoints ==
    Cardinality({i \in 1 .. Len(elements) : PartialPoint(elements[i])})

\* C17: every feature of the converter's list has a lon and a lat that are
\* both not null, and the elements with a missing or null coordinate are all
\* among the skipped, none among the features.
C17_NoNullCoordinates ==
    /\ \A j \in 1 .. Len(features) :
          LET c == features[j].geometry.coordinates
          IN  Len(c) = 2 /\ c[1] # None /\ c[2] # None
    /\ ConverterReturned =>
          /\ skipped >= CountPartialPoints
          /\ Len(features) <= Len(elements) - CountPartialPoints

\* a way whose center has a lat and a null lon is dropped, the complete node
\* after it is emitted
C17_Witness ==
    /\ ConverterReturned
    /\ Len(elements) = 2
    /\ elements[1].type = "way"
    /\ elements[1].center = Center(Null, Num(6))
    /\ elements[2].type = "node"
    /\ skipped = 1
    /\ Len(features) = 1
    /\ features[1].geometry.coordinates = << Some(2), Some(8) >>

(***************************************************************************)
(* Further properties of a whole run, under Spec.                          *)
(***************************************************************************)
\* line 249 completed and left no feature
ConvertedToNothing ==
    /\ data # None
    /\ pc # "convert"
    /\ outcome # "crashed"
    /\ features = << >>

\* C12: a dataset that yields no feature (no elements, or every element
\* skipped) ends the run fatally right after the conversion: the drop guard
\* has not run, the file was neither read nor written and is as it was when
\* the run started, whatever it was; no other run ends this way.
C12_EmptyResultIsFatal ==
    /\ ConvertedToNothing =>
          /\ outcome = "fatal_empty"
          /\ pc = "exited"
          /\ guard = "pending"
          /\ threshold = None
          /\ reads = 0
          /\ writes = 0
          /\ file = file0
    /\ outcome = "fatal_empty" => ConvertedToNothing

\* a dataset of one element that is skipped, with a previous file of three
\* features: fatal, the file untouched
C12_Witness ==
    /\ outcome = "fatal_empty"
    /\ Len(elements) = 1
    /\ skipped = 1
    /\ file0 = PrevFile(3)
    /\ file = file0
    /\ reads = 0

\* the rounds of fetch_overpass that have started
RoundsStarted ==
    CASE pc = "endpoint" -> round_idx + 1
      [] pc = "round" -> round_idx
      [] OTHER -> IF attempts = << >> THEN 0 ELSE attempts[Len(attempts)].round + 1

\* C14: there is exactly one sleep per started round of index > 0 (none for
\* round 0, none while a round goes through its endpoints, none after the
\* last round), each of RETRY_DELAY_SECONDS; before the s-th sleep every
\* endpoint of rounds 0 .. s - 1 was attempted and failed or was stale; a run
\* sleeps at most RETRY_ROUNDS - 1 times, and not at all when an endpoint is
\* fresh in round 0.
C14_RetryDelayPlacement ==
    /\ sleeps = IF RoundsStarted = 0 THEN 0 ELSE RoundsStarted - 1
    /\ pc = "endpoint" => sleeps = round_idx
    /\ now = sleeps * RETRY_DELAY_SECONDS
    /\ sleeps <= RETRY_ROUNDS - 1
    /\ outcome = "fatal_fetch" => sleeps = RETRY_ROUNDS - 1
    /\ sleeps >= 1 =>
          /\ Len(attempts) >= sleeps * NumEndpoints
          /\ \A k \in 1 .. sleeps * NumEndpoints :
                attempts[k].outcome \in {"failed", "stale"}
    /\ (\E k \in 1 .. Len(attempts) :
           attempts[k].outcome = "fresh" /\ attempts[k].round = 0) => sleeps = 0

\* the second round is at its third endpoint after one sleep, the first round
\* having ended on a stale response
C14_Witness ==
    /\ pc = "endpoint"
    /\ round_idx = 1
    /\ ep_idx = 3
    /\ Len(attempts) = 6
    /\ attempts[4].outcome = "stale"
    /\ sleeps = 1
    /\ now = RETRY_DELAY_SECONDS

\* the positions of the failed attempts in the log
FailedAttempts == {k \in 1 .. Len(attempts) : attempts[k].outcome = "failed"}

\* the loop stands right behind attempt k: at the next endpoint of its round,
\* or at the start (before or after the delay) of the next round
LoopIsBehind(k) ==
    IF attempts[k].endpoint < NumEndpoints
    THEN pc = "endpoint" /\ round_idx = attempts[k].round
                         /\ ep_idx = attempts[k].endpoint + 1
    ELSE /\ round_idx = attempts[k].round + 1
         /\ pc = "round" \/ (pc = "endpoint" /\ ep_idx = 1)

\* C15: the attempts of every round go through the endpoint list from its
\* first entry in list order, one attempt per endpoint, whatever the earlier
\* attempts gave; the retained last error and last endpoint are those of the
\* most recent failed attempt (none before the first failure), so a stale
\* response leaves them alone; after a stale response the loop only moves on
\* to the next endpoint or round (where the run may end by exhaustion).
C15_FixedOrderStaleNotRecorded ==
    /\ \A k \in 1 .. Len(attempts) : InListOrder(k)
    /\ \A j, k \in 1 .. Len(attempts) :
          (j < k /\ attempts[j].round = attempts[k].round) =>
              attempts[j].endpoint < attempts[k].endpoint
    /\ IF FailedAttempts = {}
       THEN last_error = None /\ last_endpoint = None
       ELSE LET k == CHOOSE i \in FailedAttempts : \A j \in FailedAttempts : j <= i
            IN  /\ last_error = attempts[k].error
                /\ last_endpoint = Some(OVERPASS_ENDPOINTS[attempts[k].endpoint])
    /\ (attempts # << >> /\ attempts[Len(attempts)].outcome = "stale") =>
          \/ outcome = "running" /\ LoopIsBehind(Len(attempts))
          \/ outcome = "fatal_fetch" /\ Len(attempts) = RETRY_ROUNDS * NumEndpoints

\* the first endpoint was stale in the first round and is attempted, and
\* stale, again in the second; the only failure was the second endpoint's in
\* the first round, and it is still the retained one
C15_Witness ==
    /\ Len(attempts) = 5
    /\ attempts[1].outcome = "stale"
    /\ attempts[2].outcome = "failed"
    /\ attempts[5].outcome = "stale"
    /\ attempts[5].endpoint = 1
    /\ FailedAttempts = {2}
    /\ last_endpoint = Some(OVERPASS_ENDPOINTS[2])
    /\ pc = "endpoint"
    /\ ep_idx = 2

\* C18: in one run the file is read at most once, by the drop guard and only
\* when it exists, and written at most once; the read comes before the write
\* (up to the guard nothing is read or written, between guard and write the
\* read is done and nothing is written, and the write is the last step); after
\* a successful run the file is a collection whose feature list is exactly the
\* list converted in this run from the fetched elements, with no feature of
\* the previous file in it.
C18_OverwriteNeverMerge ==
    /\ reads <= 1
    /\ writes <= 1
    /\ reads = (IF GuardRan /\ Exists(file0) THEN 1 ELSE 0)
    /\ ~GuardRan => writes = 0 /\ file = file0
    /\ pc = "write" => GuardRan /\ writes = 0 /\ file = file0
    /\ writes = 1 <=> outcome = "success"
    /\ outcome = "success" =>
          /\ pc = "done"
          /\ file.kind = "collection"
          /\ file.features = features
          /\ features = elements_to_features(data[1].elements).features
          /\ \A i \in 1 .. Len(file.features) : file.features[i] # OldFeature

\* a previous file of two features, read by the guard, replaced by a file of
\* the one feature of this run
C18_Witness ==
    /\ outcome = "success"
    /\ file0 = PrevFile(2)
    /\ reads = 1
    /\ writes = 1
    /\ Len(features) = 1
    /\ file = File("collection", features)

\* no element of the list can be converted: the list is empty, or each
\* element is of another kind or has no geometry source
NothingConvertible(es) == \A i \in 1 .. Len(es) : Excluded(es[i])

\* a fresh attempt whose dataset has nothing to convert is the last attempt
\* of the run, its dataset is the one returned, and the run converts it next
\* or has ended with the empty-result error; nothing was written
EmptyFreshIsReturned ==
    \A k \in 1 .. Len(attempts) :
        (attempts[k].outcome = "fresh"
         /\ NothingConvertible(attempts[k].data[1].elements)) =>
            /\ k = Len(attempts)
            /\ data = attempts[k].data
            /\ \/ outcome = "running" /\ pc = "convert"
               \/ outcome = "fatal_empty" /\ pc = "exited"
            /\ guard = "pending"
            /\ writes = 0

SecondRunAfterSuccess == previous_run # None /\ previous_run[1].outcome = "success"

\* C13: starting with no or an empty previous output, a second run on the
\* same upstream data as a first run that succeeded does not end fatally (it
\* succeeds when it ends), its drop guard compares equal counts (a drop of
\* 0%) and does not abort, and the file is throughout, and after the write,
\* the file the first run left.
C13_Idempotent ==
    SecondRunAfterSuccess =>
        /\ outcome \in {"running", "success"}
        /\ guard # "aborted"
        /\ guard = "passed" =>
              /\ reads = 1
              /\ Len(features) = Len(file0.features)
        /\ file0 = previous_run[1].file
        /\ file = previous_run[1].file
        /\ pc = "done" => writes = 1 /\ file = write_geojson(features)

\* the first run got its three features from the second endpoint of the
\* second round, the second run did so too, with a threshold of 0, and wrote
\* the same file
C13_Witness ==
    /\ SecondRunAfterSuccess
    /\ pc = "done"
    /\ outcome = "success"
    /\ Len(attempts) = 6
    /\ attempts[1].outcome = "stale"
    /\ threshold = Some(0)
    /\ Len(features) = 3
    /\ writes = 1
    /\ file = previous_run[1].file

(***************************************************************************)
(* Termination.  The process is one thread that runs main() from top to    *)
(* bottom: a step that can be taken is taken, as each request is bounded   *)
(* by its timeout (line 120) and each sleep by its delay (line 109).       *)
(***************************************************************************)
SpecLive == Spec /\ WF_vars(Next)

Terminated == pc \in {"done", "exited"}

\* the attempts of fetch_overpass are at most RETRY_ROUNDS per endpoint, and
\* after the last of them the function has returned a dataset or is at, or
\* past, its fatal exit
AttemptsBounded ==
    /\ Len(attempts) <= RETRY_ROUNDS * NumEndpoints
    /\ Len(attempts) = RETRY_ROUNDS * NumEndpoints =>
          \/ data # None
          \/ outcome = "fatal_fetch"
          \/ pc = "round" /\ ENABLED Exhausted

\* a run that has ended has one outcome: a fatal exit that left the file
\* alone, or a completed write
OneOutcome ==
    /\ pc = "done" <=> outcome = "success"
    /\ pc = "exited" <=> outcome \in Fatal
    /\ outcome = "success" => writes = 1
    /\ outcome \in Fatal => writes = 0
    /\ ~Terminated <=> outcome = "running"

\* C20: every run terminates: fetch_overpass makes at most
\* RETRY_ROUNDS * len(OVERPASS_ENDPOINTS) attempts and then has returned a
\* dataset or exits fatally, and the run eventually is, and stays, at exactly
\* one terminal outcome, a fatal exit or a completed write.
C20_Terminates ==
    /\ [](AttemptsBounded /\ OneOutcome)
    /\ <>[]Terminated

\* eight attempts, the last of them fresh, and the file written
C20_Witness ==
    /\ Len(attempts) = RETRY_ROUNDS * NumEndpoints
    /\ attempts[Len(attempts)].outcome = "fresh"
    /\ pc = "done"
    /\ outcome = "success"
    /\ writes = 1

====
